---- MODULE Spec2Model ----
(***************************************************************************)
(* NikiViti Solaris chat front end: the conversation store and submit      *)
(* handler of the App components, and the request dispatcher               *)
(* (sendMessageToGemini and the inline dispatch of handleSend).            *)
(*                                                                         *)
(* JavaScript strings are sequences of tokens.  The tokens ":", ";" and    *)
(* "," are the single characters the dispatcher splits and matches on;     *)
(* every other token is a run of characters holding none of the three.     *)
(* Fixed Russian texts of the source are written as one ASCII token each.  *)
(***************************************************************************)
EXTENDS Integers, Sequences, FiniteSets, TLC

VARIABLES
  rev,          \* which revision of the dispatcher / handler is running
  messages,     \* the message store (state.messages / messages)
  isLoading,    \* state.isLoading / isLoading
  error,        \* state.error (App.tsx only)
  selectedModel,\* state.selectedModel / model
  input,        \* the text input state
  selectedImage,\* the attached image state (data URL or Null)
  rendered,     \* the values captured by the handler closure of the last render
  calls,        \* provider calls in flight, in issue order
  now,          \* the clock read by Date.now() and new Date()
  last,         \* what the submit handler did last: "none", "ignored", "accepted",
                \* or how the dispatch it awaited ended: "client", "threw", "empty", "replied"
  apiKey,       \* whether process.env.API_KEY is set
  dpc,          \* position of the stand-alone dispatch: "args", "sent", "done"
  dargs,        \* arguments of the stand-alone dispatch
  dreq,         \* contents of the request it sent
  dout,         \* what the provider call did
  dres,         \* what the dispatch returned or raised
  heap          \* the arrays of the stand-alone dispatch: the caller's history
                \* and the contents the dispatcher builds

uivars == <<messages, isLoading, error, selectedModel, input, selectedImage,
            rendered, calls, now, last>>
dvars  == <<dpc, dargs, dreq, dout, dres, heap>>
vars   == <<rev, apiKey, messages, isLoading, error, selectedModel, input,
            selectedImage, rendered, calls, now, last, dpc, dargs, dreq, dout,
            dres, heap>>

----------------------------------------------------------------------------
(* Bounds of the model *)

MaxHist == 20      \* longest history handed to the stand-alone dispatch
MaxParts == 2      \* most parts in one candidate of a modelled response
MaxMime == 2       \* most tokens in a MIME type of the round-trip inputs
MaxMessages == 5   \* a submit is taken only while its turn still fits the store
MaxNow == 2        \* the clock of the timed session stops here

----------------------------------------------------------------------------
(* JavaScript values *)

Undefined == <<"<undefined>">>   \* undefined; no string of the model equals it
Null == <<"<null>">>             \* null
EmptyStr == <<>>                 \* ""

Truthy(s) == s # Undefined /\ s # Null /\ s # EmptyStr

\* `${x}` in a template literal
ToStr(x) == IF x = Undefined THEN <<"undefined">> ELSE IF x = Null THEN <<"null">> ELSE x

\* String.prototype.trim on a token string whose only white space token is " "
RECURSIVE TrimLeft(_)
TrimLeft(s) == IF s # <<>> /\ Head(s) = " " THEN TrimLeft(Tail(s)) ELSE s
RECURSIVE TrimRight(_)
TrimRight(s) ==
  IF s # <<>> /\ s[Len(s)] = " " THEN TrimRight(SubSeq(s, 1, Len(s) - 1)) ELSE s
Trim(s) == TrimRight(TrimLeft(s))

\* String.prototype.split(sep) for a one-character separator
RECURSIVE Split(_, _)
Split(s, sep) ==
  IF s = <<>> THEN << <<>> >>
  ELSE LET rest == Split(Tail(s), sep) IN
       IF Head(s) = sep THEN << <<>> >> \o rest
       ELSE << <<Head(s)>> \o Head(rest) >> \o Tail(rest)

\* index of the first c in s at or after from, 0 when there is none
RECURSIVE IndexOf(_, _, _)
IndexOf(s, c, from) ==
  IF from > Len(s) THEN 0
  ELSE IF s[from] = c THEN from ELSE IndexOf(s, c, from + 1)

\* s.match(/:(.*?);/)?.[1] : the text between the first ":" and the first ";"
\* after it; undefined when the pattern does not match
MatchMime(s) ==
  LET i == IndexOf(s, ":", 1) IN
  IF i = 0 THEN Undefined
  ELSE LET j == IndexOf(s, ";", i + 1) IN
       IF j = 0 THEN Undefined ELSE SubSeq(s, i + 1, j - 1)

\* slice(0, n) written for slice(-n): the first n elements
SliceFirst(a, n) == SubSeq(a, 1, IF Len(a) < n THEN Len(a) ELSE n)

\* Array.prototype.slice(-n)
SliceLast(a, n) ==
  LET start == IF Len(a) - n > 0 THEN Len(a) - n ELSE 0 IN SubSeq(a, start + 1, Len(a))

StartsWithImage(m) == Len(m) >= 1 /\ m[1] = "image/"

\* FileReader.readAsDataURL of a file of MIME type m and base64 payload d
DataUrl(m, d) == <<"data", ":">> \o m \o <<";", "base64", ",">> \o d

----------------------------------------------------------------------------
(* Revisions of the source.  geminiService.ts and part_003 are two          *)
(* revisions of sendMessageToGemini, called by handleSendMessage of         *)
(* App.tsx; index.tsx and part_002 dispatch inline in handleSend.           *)

Revs == {"geminiService.ts", "part_003", "index.tsx", "part_002"}
IsService(r) == r \in {"geminiService.ts", "part_003"}

ModelIds == {"standard", "pro", "eco"}

WINDOW_geminiService == 12
WINDOW_part_003 == 15
WINDOW_index == 15
WINDOW_part_002 == 12

\* the window of an older revision in every file
WindowEight(r) == 8

Window(r) ==
  CASE r = "geminiService.ts" -> WINDOW_geminiService
    [] r = "part_003" -> WINDOW_part_003
    [] r = "index.tsx" -> WINDOW_index
    [] r = "part_002" -> WINDOW_part_002

\* the label put before the text for eco
ArtLabel(r) ==
  IF r = "geminiService.ts" THEN <<"NikiViti Art conceptualization: ">>
  ELSE <<"Art Concept: ">>

\* new Error(...) of the catch block of sendMessageToGemini
ServiceError(r) ==
  IF r = "geminiService.ts" THEN <<"Sboi Solaris Core. Povtorite zapros cherez mgnovenie.">>
  ELSE <<"Kriticheskii sboi svyazi Solaris. Pozhaluista, perezapustite neironnyi uzel.">>

\* the message of an error raised by new GoogleGenAI(...), outside the try
ClientError == <<"GoogleGenAI constructor error">>

\* text || "..." of the reply message of handleSend
ReplyPlaceholder(r) ==
  IF r = "index.tsx" THEN <<"Zapros obrabotan.">> ELSE <<"Komanda vypolnena uspeshno.">>

\* the text of the message handleSend appends in its catch block
HandlerErrorText(r) ==
  IF r = "index.tsx" THEN <<"Oshibka neironnogo uzla. Poprobuite snova.">>
  ELSE <<"Vnimanie! Neironnyi uzel ne otvetil. Pozhaluista, ubedites', chto API klyuch aktiven i povtorite vvod.">>

\* the text of the first part built by handleSend
InlineText(r, text) ==
  IF r = "part_002" THEN (IF Truthy(text) THEN text ELSE <<"Requesting processing.">>)
  ELSE text

----------------------------------------------------------------------------
(* Building the request *)

\* const [mimeInfo, data] = imageInput.split(','); mimeType = match || 'image/png'
inlineData(imageInput) ==
  LET pieces == Split(imageInput, ",")
      mimeInfo == pieces[1]
      data == IF Len(pieces) >= 2 THEN pieces[2] ELSE Undefined
      m == MatchMime(mimeInfo)
      mimeType == IF Truthy(m) THEN m ELSE <<"image/", "png">>
  IN [inlineData |-> [mimeType |-> mimeType, data |-> data]]

\* parts.push written for parts.unshift: the inline part after the text part
partsPush(r, newMessage, modelId, imageInput) ==
  LET textPart == [text |-> IF modelId = "eco" THEN ArtLabel(r) \o newMessage
                            ELSE newMessage]
  IN IF Truthy(imageInput) THEN <<textPart, inlineData(imageInput)>> ELSE <<textPart>>

\* parts of sendMessageToGemini: the text part, the inline part unshifted before it
parts(r, newMessage, modelId, imageInput) ==
  LET textPart == [text |-> IF modelId = "eco" THEN ArtLabel(r) \o newMessage
                            ELSE newMessage]
  IN IF Truthy(imageInput) THEN <<inlineData(imageInput), textPart>> ELSE <<textPart>>

\* currentParts of handleSend
currentParts(r, text, image) ==
  LET textPart == [text |-> InlineText(r, text)]
  IN IF Truthy(image) THEN <<inlineData(image), textPart>> ELSE <<textPart>>

\* the context built for eco as for the other variants
contextForEco(r, history, modelId) ==
  LET w == SliceLast(history, Window(r)) IN
  [i \in 1..Len(w) |->
     [role |-> IF w[i].role = "user" THEN "user" ELSE "model",
      parts |-> <<[text |-> w[i].text]>>]]

\* a map that also carries the image of a message as an inline part
contextWithImages(r, history, modelId) ==
  IF modelId = "eco" THEN <<>>
  ELSE LET w == SliceLast(history, Window(r))
           image(msg) == IF Truthy(msg.inputImageUrl) THEN msg.inputImageUrl
                         ELSE msg.imageUrl
       IN
       [i \in 1..Len(w) |->
          [role |-> IF w[i].role = "user" THEN "user" ELSE "model",
           parts |-> IF Truthy(image(w[i]))
                     THEN <<[text |-> w[i].text], inlineData(image(w[i]))>>
                     ELSE <<[text |-> w[i].text]>>]]

\* history.slice(-N).map(msg => ({role, parts: [{text: msg.text}]})), [] for eco
context(r, history, modelId) ==
  IF modelId = "eco" THEN <<>>
  ELSE LET w == SliceLast(history, Window(r)) IN
       [i \in 1..Len(w) |->
          [role |-> IF w[i].role = "user" THEN "user" ELSE "model",
           parts |-> <<[text |-> w[i].text]>>]]

\* contents of sendMessageToGemini after contents.push(...)
serviceContents(r, history, newMessage, modelId, imageInput) ==
  LET ps == parts(r, newMessage, modelId, imageInput) IN
  Append(context(r, history, modelId),
         [role |-> "user",
          parts |-> IF Len(ps) > 1 \/ Truthy(imageInput) THEN ps
                    ELSE <<[text |-> newMessage]>>])

\* contents (index.tsx) / history (part_002) of handleSend after the push
inlineContents(r, history, text, modelId, image) ==
  Append(context(r, history, modelId),
         [role |-> "user", parts |-> currentParts(r, text, image)])

contents(r, history, text, modelId, image) ==
  IF IsService(r) THEN serviceContents(r, history, text, modelId, image)
  ELSE inlineContents(r, history, text, modelId, image)

----------------------------------------------------------------------------
(* Reading the response *)

\* what await ai.models.generateContent(...) does: it throws, or it returns a
\* response whose candidates, content and parts may each be missing; an
\* inlineData of a response always has its mimeType and its data
Throws == [throws |-> "TransportOrProviderError"]
HasThrown(o) == "throws" \in DOMAIN o

\* the ";base64" marker left out of the template
encodeNoMarker(inline) ==
  <<"data", ":">> \o ToStr(inline.mimeType) \o <<",">> \o ToStr(inline.data)

\* `data:${mimeType};base64,${data}`
encode(inline) ==
  <<"data", ":">> \o ToStr(inline.mimeType) \o <<";", "base64", ",">> \o ToStr(inline.data)

\* response.candidates?.[0]?.content : does the optional chain reach a content
hasContent(response) ==
  /\ "candidates" \in DOMAIN response
  /\ Len(response.candidates) > 0
  /\ "content" \in DOMAIN response.candidates[1]

\* true when the chain reaches a content that has parts
hasParts(response) ==
  hasContent(response) /\ "parts" \in DOMAIN response.candidates[1].content

\* true when the optional chain of handleSend reaches .parts and finds it missing,
\* so that .forEach raises a TypeError
forEachRaises(response) == hasContent(response) /\ ~hasParts(response)

\* const resParts = response.candidates?.[0]?.content?.parts || []
resParts(response) ==
  IF hasParts(response) THEN response.candidates[1].content.parts ELSE <<>>

\* the loop with text = part.text written for text += part.text
RECURSIVE serviceLoopLastText(_, _)
serviceLoopLastText(ps, acc) ==
  IF ps = <<>> THEN acc
  ELSE LET part == Head(ps)
           text == IF "text" \in DOMAIN part /\ Truthy(part.text)
                   THEN part.text ELSE acc.text
       IN IF "inlineData" \in DOMAIN part /\ StartsWithImage(part.inlineData.mimeType)
          THEN serviceLoopLastText(Tail(ps), [acc EXCEPT !.text = text,
                                                          !.imageUrl = encode(part.inlineData)])
          ELSE serviceLoopLastText(Tail(ps), [acc EXCEPT !.text = text])

\* the for loop of sendMessageToGemini over resParts
RECURSIVE serviceLoop(_, _)
serviceLoop(ps, acc) ==
  IF ps = <<>> THEN acc
  ELSE LET part == Head(ps)
           text == IF "text" \in DOMAIN part /\ Truthy(part.text)
                   THEN acc.text \o part.text ELSE acc.text
       IN IF "inlineData" \in DOMAIN part /\ StartsWithImage(part.inlineData.mimeType)
          THEN serviceLoop(Tail(ps), [acc EXCEPT !.text = text,
                                                  !.imageUrl = encode(part.inlineData)])
          ELSE serviceLoop(Tail(ps), [acc EXCEPT !.text = text])

\* the forEach of handleSend: every inlineData part is re-encoded
RECURSIVE inlineLoop(_, _)
inlineLoop(ps, acc) ==
  IF ps = <<>> THEN acc
  ELSE LET p == Head(ps)
           resText == IF "text" \in DOMAIN p /\ Truthy(p.text)
                      THEN acc.text \o p.text ELSE acc.text
       IN IF "inlineData" \in DOMAIN p
          THEN inlineLoop(Tail(ps), [acc EXCEPT !.text = resText,
                                                 !.imageUrl = encode(p.inlineData)])
          ELSE inlineLoop(Tail(ps), [acc EXCEPT !.text = resText])

\* a response that yields neither text nor an image: no candidates, no content,
\* no parts, or parts that hold only empty text and inline data that is no image
IsEmptyResponse(o) ==
  /\ ~HasThrown(o)
  /\ \A i \in 1..Len(resParts(o)) :
       LET part == resParts(o)[i] IN
       /\ "text" \in DOMAIN part => part.text = EmptyStr
       /\ "inlineData" \in DOMAIN part => ~StartsWithImage(part.inlineData.mimeType)

\* how a provider call ended
OutcomeKind(o) ==
  IF HasThrown(o) THEN "threw" ELSE IF IsEmptyResponse(o) THEN "empty" ELSE "replied"

LoopStart == [text |-> EmptyStr, imageUrl |-> Undefined]

Failure(msg) == [ok |-> FALSE, message |-> msg]
Success(text, imageUrl) == [ok |-> TRUE, text |-> text, imageUrl |-> imageUrl]

\* the emptiness test written as if (!text) throw
sendMessageToGeminiNeedsText(r, o) ==
  IF HasThrown(o) THEN Failure(ServiceError(r))
  ELSE LET acc == serviceLoop(resParts(o), LoopStart) IN
       IF ~Truthy(acc.text) THEN Failure(ServiceError(r))
       ELSE Success(acc.text, acc.imageUrl)

\* the catch block rethrowing the error it caught
sendMessageToGeminiRethrows(r, o) ==
  IF HasThrown(o) THEN Failure(<<o.throws>>)
  ELSE LET acc == serviceLoop(resParts(o), LoopStart) IN
       IF ~Truthy(acc.text) /\ ~Truthy(acc.imageUrl)
       THEN Failure(<<"Signal NikiViti poteryan.">>)
       ELSE Success(acc.text, acc.imageUrl)

\* the emptiness test left out
sendMessageToGeminiNoTest(r, o) ==
  IF HasThrown(o) THEN Failure(ServiceError(r))
  ELSE LET acc == serviceLoop(resParts(o), LoopStart) IN Success(acc.text, acc.imageUrl)

\* the try/catch of sendMessageToGemini applied to the outcome o of the call:
\* { text, imageUrl }, or the Error of the catch block
sendMessageToGemini(r, o) ==
  IF HasThrown(o) THEN Failure(ServiceError(r))
  ELSE LET acc == serviceLoop(resParts(o), LoopStart) IN
       IF ~Truthy(acc.text) /\ ~Truthy(acc.imageUrl) THEN Failure(ServiceError(r))
       ELSE Success(acc.text, acc.imageUrl)

\* the try/catch of handleSend applied to the outcome o of the call: the text and
\* image of the reply message, or the text of the error message
handleSendResult(r, o) ==
  IF HasThrown(o) \/ forEachRaises(o) THEN Failure(HandlerErrorText(r))
  ELSE LET acc == inlineLoop(resParts(o), LoopStart) IN
       Success(IF Truthy(acc.text) THEN acc.text ELSE ReplyPlaceholder(r), acc.imageUrl)

dispatchResult(r, o) ==
  IF IsService(r) THEN sendMessageToGemini(r, o) ELSE handleSendResult(r, o)

\* what the caller gets when new GoogleGenAI(...) raises: sendMessageToGemini
\* builds the client outside its try, handleSend inside
clientFailure(r) ==
  IF IsService(r) THEN Failure(ClientError) ELSE Failure(HandlerErrorText(r))

----------------------------------------------------------------------------
(* Values the inputs are drawn from *)

Png == <<"image/", "png">>
Jpeg == <<"image/", "jpeg">>
Pdf == <<"application/", "pdf">>
Payload1 == <<"iVBORw0KGgo=">>
Payload2 == <<"/9j/4AAQ">>
Payload3 == <<"JVBERi0x">>

PngUrl == DataUrl(Png, Payload1)

\* the image stored with the i-th message of a history, one image per message
HistPayload(i) == <<"hist", ToString(i)>>
HistUrl(i) == DataUrl(Jpeg, HistPayload(i))

\* Date.now().toString() at t milliseconds after the page was loaded: a string
\* of digits that is neither 'init' nor '1'
NumStr(t) == <<"1700000000000+", ToString(t)>>

\* a stored message; imageUrl and inputImageUrl are Undefined when absent
Message(id, role, text, imageUrl, inputImageUrl, timestamp) ==
  [id |-> id, role |-> role, text |-> text, imageUrl |-> imageUrl,
   inputImageUrl |-> inputImageUrl, timestamp |-> timestamp]

\* the i-th message of a history of the stand-alone dispatch: roles alternate
\* from phase, every third message carries an image
HistMessage(i, phase) ==
  LET role == IF (i + phase) % 2 = 0 THEN "user" ELSE "model" IN
  Message(NumStr(i), role, <<"m", ToString(i)>>,
          IF role = "model" /\ i % 3 = 0 THEN HistUrl(i) ELSE Undefined,
          IF role = "user" /\ i % 3 = 0 THEN HistUrl(i) ELSE Undefined,
          i)

History(len, phase) == [i \in 1..len |-> HistMessage(i, phase)]

Texts == {EmptyStr, <<"hi">>}

\* parts a candidate may hold
RespPartKinds ==
  {[text |-> t] : t \in {EmptyStr, <<"a">>, <<"b">>}}
  \cup {[inlineData |-> [mimeType |-> Png, data |-> Payload1]],
        [inlineData |-> [mimeType |-> Jpeg, data |-> Payload2]],
        [inlineData |-> [mimeType |-> Pdf, data |-> Payload3]]}

SeqsUpTo(S, n) == UNION {[1..k -> S] : k \in 0..n}

Candidate(ps) == [content |-> [parts |-> ps]]
OtherCandidate == Candidate(<<[text |-> <<"other">>],
                              [inlineData |-> [mimeType |-> Jpeg, data |-> Payload3]]>>)

\* outcomes of one provider call
Responses ==
  {[promptFeedback |-> "blocked"],
   [candidates |-> <<>>],
   [candidates |-> <<[finishReason |-> "SAFETY"]>>],
   [candidates |-> <<[content |-> [role |-> "model"]]>>]}
  \cup {[candidates |-> <<Candidate(ps)>>] : ps \in SeqsUpTo(RespPartKinds, MaxParts)}
  \cup {[candidates |-> <<Candidate(ps), OtherCandidate>>] : ps \in SeqsUpTo(RespPartKinds, 1)}

Outcomes == {Throws} \cup Responses

----------------------------------------------------------------------------
(* The stand-alone dispatch: one call of sendMessageToGemini, or of the     *)
(* inline dispatch of handleSend, on arguments drawn by Init                *)

DArgs(history, text, modelId, mime, payload) ==
  [history |-> history, newMessage |-> text, modelId |-> modelId,
   mime |-> mime, payload |-> payload,
   imageInput |-> IF mime = Undefined THEN Undefined ELSE DataUrl(mime, payload)]

NoRequest == <<>>

\* the arrays of a dispatch before contents is built
Arrays(history) == [history |-> history, contents |-> <<>>]

\* contents naming the history array itself, slice and map left out
contentsArrayIsHistory(r, modelId) == IF modelId = "eco" THEN "contents" ELSE "history"

\* the array that contents names: the [] literal or the array that
\* slice(-N).map(...) returns, a new array either way
contentsArray(r, modelId) == "contents"

\* the arrays after contents has been built and contents.push(turn) has run
pushTurn(h, r, modelId, turn) ==
  LET c == contentsArray(r, modelId)
      built == IF c = "contents"
               THEN [h EXCEPT !.contents = context(r, h.history, modelId)]
               ELSE h
  IN [built EXCEPT ![c] = Append(@, turn)]
NoResult == [ok |-> FALSE, message |-> <<"pending">>]

UIInit ==
  /\ messages = <<>>
  /\ isLoading = FALSE
  /\ error = Null
  /\ selectedModel = "pro"
  /\ input = EmptyStr
  /\ selectedImage = Null
  /\ rendered = <<>>
  /\ calls = <<>>
  /\ now = 0
  /\ last = "none"

NoOutcome == [throws |-> "pending"]

DInit ==
  /\ rev \in Revs
  /\ apiKey \in BOOLEAN
  /\ UIInit
  /\ dpc = "args"
  /\ \E len \in 0..MaxHist, phase \in 0..1, text \in Texts, modelId \in ModelIds,
        img \in {<<Undefined, Undefined>>, <<Png, Payload1>>} :
       dargs = DArgs(History(len, phase), text, modelId, img[1], img[2])
  /\ heap = Arrays(dargs.history)
  /\ dreq = NoRequest
  /\ dout = NoOutcome
  /\ dres = NoResult

\* new GoogleGenAI(...) succeeds, the contents are built and generateContent is called
DSend ==
  /\ dpc = "args"
  /\ apiKey
  /\ dpc' = "sent"
  /\ dreq' = contents(rev, dargs.history, dargs.newMessage, dargs.modelId, dargs.imageInput)
  /\ heap' = pushTurn(heap, rev, dargs.modelId, dreq'[Len(dreq')])
  /\ UNCHANGED <<rev, apiKey, uivars, dargs, dout, dres>>

\* new GoogleGenAI(...) raises: no request is sent
DClientFails ==
  /\ dpc = "args"
  /\ ~apiKey
  /\ dpc' = "done"
  /\ dres' = clientFailure(rev)
  /\ UNCHANGED <<rev, apiKey, uivars, dargs, dreq, dout, heap>>

\* the call settles with outcome o
DReceive ==
  /\ dpc = "sent"
  /\ \E o \in Outcomes :
       /\ dpc' = "done"
       /\ dout' = o
       /\ dres' = dispatchResult(rev, o)
       /\ UNCHANGED <<rev, apiKey, uivars, dargs, dreq, heap>>

\* the provider returns the image of the file that was attached
DEcho ==
  /\ dpc = "sent"
  /\ Truthy(dargs.imageInput)
  /\ LET o == [candidates |-> <<Candidate(<<[inlineData |->
                  [mimeType |-> dargs.mime, data |-> dargs.payload]]>>)>>]
     IN /\ dpc' = "done"
        /\ dout' = o
        /\ dres' = dispatchResult(rev, o)
        /\ UNCHANGED <<rev, apiKey, uivars, dargs, dreq, heap>>

DNext == DSend \/ DClientFails \/ DReceive

\* MIME types and payloads of the files of the round trip
MimeTokens == {"image/", "png", "application/", ":", ";", ","}
MimeTypes == SeqsUpTo(MimeTokens, MaxMime)
Payloads == {EmptyStr, Payload1, Payload1 \o Payload2}

RTInit ==
  /\ rev \in Revs
  /\ apiKey = TRUE
  /\ UIInit
  /\ dpc = "args"
  /\ \E text \in Texts, modelId \in ModelIds, m \in MimeTypes, d \in Payloads :
       dargs = DArgs(History(1, 0), text, modelId, m, d)
  /\ heap = Arrays(dargs.history)
  /\ dreq = NoRequest
  /\ dout = NoOutcome
  /\ dres = NoResult

RTNext == DSend \/ DEcho

\* a dispatch with an attached file whose image the provider returns
SpecRoundTrip == RTInit /\ [][RTNext]_vars

SpecDispatch == DInit /\ [][DNext]_vars

----------------------------------------------------------------------------
(* The chat session: the App component of App.tsx (with sendMessageToGemini) *)
(* or of index.tsx / part_002 (with the inline dispatch).                    *)
(*                                                                           *)
(* A handler reads the state through the closure created by the last render  *)
(* (rendered); setState(prev => ...) and the setters write the current       *)
(* state.  React renders again in a later step (Render): it flushes the      *)
(* updates of an event in a microtask, so a submit event dispatched in the   *)
(* same task, and the continuation of a settled promise, can run before it.  *)
(* Typing, attaching and selecting are browser tasks of their own; they read *)
(* nothing from the closure and commute with Render, so they are taken on    *)
(* the rendered page only.                                                   *)

Greeting(r) ==
  IF IsService(r)
  THEN Message(<<"init">>, "model", <<"Sistema NikiViti Solaris Spectrum v2.0 v seti.">>,
               Undefined, Undefined, 0)
  ELSE Message(<<"1">>, "model", <<"Yadro NikiViti Solaris onlain.">>,
               Undefined, Undefined, 0)

\* the values a render captures for the handlers it creates
Snapshot(in, img, msgs, loading, model) ==
  [input |-> in, selectedImage |-> img, messages |-> msgs, isLoading |-> loading,
   selectedModel |-> model]

\* App.tsx imports sendMessageToGemini from ./services/geminiService
SessionRevs == {"geminiService.ts", "index.tsx", "part_002"}

UITexts == {EmptyStr, <<" ">>, <<"hi">>}
UIModels == {"pro", "eco"}

\* outcomes of a provider call of the session
UIOutcomes ==
  {Throws,
   [promptFeedback |-> "blocked"],
   [candidates |-> <<[content |-> [role |-> "model"]]>>],
   [candidates |-> <<Candidate(<<[text |-> EmptyStr]>>)>>],
   [candidates |-> <<Candidate(<<[text |-> <<"a">>]>>)>>],
   [candidates |-> <<Candidate(<<[inlineData |-> [mimeType |-> Pdf, data |-> Payload3]]>>)>>]}

Init ==
  /\ rev \in SessionRevs
  /\ apiKey \in BOOLEAN
  /\ messages = <<Greeting(rev)>>
  /\ isLoading = FALSE
  /\ error = Null
  /\ selectedModel = "pro"
  /\ input = EmptyStr
  /\ selectedImage = Null
  /\ rendered = Snapshot(EmptyStr, Null, <<Greeting(rev)>>, FALSE, "pro")
  /\ calls = <<>>
  /\ now = 0
  /\ last = "none"
  /\ dpc = "idle"
  /\ dargs = DArgs(<<>>, EmptyStr, "pro", Undefined, Undefined)
  /\ heap = Arrays(<<>>)
  /\ dreq = NoRequest
  /\ dout = NoOutcome
  /\ dres = NoResult

\* the handlers on the page are those of the current state
Fresh == rendered = Snapshot(input, selectedImage, messages, isLoading, selectedModel)

\* React renders: the handlers are created again over the current state
Render ==
  /\ rendered # Snapshot(input, selectedImage, messages, isLoading, selectedModel)
  /\ rendered' = Snapshot(input, selectedImage, messages, isLoading, selectedModel)
  /\ UNCHANGED <<rev, apiKey, messages, isLoading, error, selectedModel, input,
                 selectedImage, calls, now, last, dvars>>

\* disabled={state.isLoading} of the text input; index.tsx leaves it enabled
InputDisabled(r, c) == r # "index.tsx" /\ c.isLoading

\* onChange of the text input: setInput(e.target.value)
SetInput ==
  /\ Fresh
  /\ ~InputDisabled(rev, rendered)
  /\ \E v \in UITexts : input' = v
  /\ UNCHANGED <<rev, apiKey, messages, isLoading, error, selectedModel,
                 selectedImage, rendered, calls, now, last, dvars>>

\* handleImageUpload, reader.onloadend: setSelectedImage(reader.result)
handleImageUpload ==
  /\ Fresh
  /\ selectedImage' = PngUrl
  /\ UNCHANGED <<rev, apiKey, messages, isLoading, error, selectedModel, input,
                 rendered, calls, now, last, dvars>>

\* the remove button of the preview: setSelectedImage(null)
RemoveImage ==
  /\ Fresh
  /\ Truthy(rendered.selectedImage)
  /\ selectedImage' = Null
  /\ UNCHANGED <<rev, apiKey, messages, isLoading, error, selectedModel, input,
                 rendered, calls, now, last, dvars>>

\* a model tab: setState(prev => ({...prev, selectedModel: model.id})) / setModel
SelectModel ==
  /\ Fresh
  /\ \E m \in UIModels : selectedModel' = m
  /\ UNCHANGED <<rev, apiKey, messages, isLoading, error, input, selectedImage,
                 rendered, calls, now, last, dvars>>

\* the guard without the trim
IgnoredNoTrim(c) == (~Truthy(c.input) /\ ~Truthy(c.selectedImage)) \/ c.isLoading

\* the guard of the submit handler, on the values of its closure
Ignored(c) == (~Truthy(Trim(c.input)) /\ ~Truthy(c.selectedImage)) \/ c.isLoading

\* a submit event the handler returns from at once
SubmitIgnored ==
  /\ Ignored(rendered)
  /\ last' = "ignored"
  /\ UNCHANGED <<rev, apiKey, messages, isLoading, error, selectedModel, input,
                 selectedImage, rendered, calls, now, dvars>>

\* the user message and the reply of one more turn still fit the modelled store
Fits == Len(messages) + Len(calls) + 2 <= MaxMessages

\* userMessage of handleSendMessage
userMessage(c, t) ==
  Message(NumStr(t), "user",
          IF Truthy(c.input) THEN c.input
          ELSE IF Truthy(c.selectedImage) THEN <<"[Sistema: Vhodyashchee izobrazhenie]">>
          ELSE EmptyStr,
          Undefined,
          IF Truthy(c.selectedImage) THEN c.selectedImage ELSE Undefined,
          t)

\* userMsg of handleSend
userMsg(c, t) ==
  Message(NumStr(t), "user", c.input, Undefined,
          IF Truthy(c.selectedImage) THEN c.selectedImage ELSE Undefined, t)

\* the image read from the state as it is now, not from the closure
imageArgCurrent(c) == IF Truthy(selectedImage) THEN selectedImage ELSE Undefined

\* the image argument: currentImg || undefined / image
imageArg(c) == IF Truthy(c.selectedImage) THEN c.selectedImage ELSE Undefined

\* a provider call in flight (sent), or the rejected promise of a dispatch whose
\* client could not be built, waiting for the catch of handleSendMessage
\* turn is the place in the store of the user message of the dispatch
Call(sent, req, turn) == [sent |-> sent, contents |-> req, turn |-> turn]

\* the message put before the stored ones
spreadFront(prev, msg) == <<msg>> \o prev

\* [...prev, msg] of the updaters handed to setState / setMessages
spread(prev, msg) == Append(prev, msg)

\* handleSendMessage of App.tsx up to its await
handleSendMessage ==
  /\ IsService(rev)
  /\ ~Ignored(rendered)
  /\ Fits
  /\ messages' = spread(messages, userMessage(rendered, now))
  /\ input' = EmptyStr
  /\ selectedImage' = Null
  /\ isLoading' = TRUE
  /\ error' = Null
  /\ calls' = Append(calls,
       IF apiKey
       THEN Call(TRUE, contents(rev, rendered.messages, rendered.input,
                                rendered.selectedModel, imageArg(rendered)),
                 Len(messages) + 1)
       ELSE Call(FALSE, NoRequest, Len(messages) + 1))
  /\ last' = "accepted"
  /\ UNCHANGED <<rev, apiKey, selectedModel, rendered, now, dvars>>

\* the error message appended by the catch of handleSend
errorMessage(r, t) == Message(NumStr(t), "model", HandlerErrorText(r), Undefined, Undefined, t)

\* handleSend of index.tsx / part_002 up to its await; when the client cannot be
\* built the catch and the finally run before the handler returns
handleSend ==
  /\ ~IsService(rev)
  /\ ~Ignored(rendered)
  /\ Fits
  /\ input' = EmptyStr
  /\ selectedImage' = Null
  /\ IF apiKey
     THEN /\ messages' = spread(messages, userMsg(rendered, now))
          /\ isLoading' = TRUE
          /\ calls' = Append(calls,
               Call(TRUE, contents(rev, rendered.messages, rendered.input,
                                   rendered.selectedModel, imageArg(rendered)),
                    Len(messages) + 1))
          /\ last' = "accepted"
     ELSE /\ messages' = spread(spread(messages, userMsg(rendered, now)),
                                  errorMessage(rev, now))
          /\ isLoading' = FALSE
          /\ calls' = calls
          /\ last' = "client"
  /\ UNCHANGED <<rev, apiKey, error, selectedModel, rendered, now, dvars>>

\* the settled call issued again
Reissue(q, i) == q

\* the calls still awaited once call i has settled; nothing is issued again
Remove(q, i) == SubSeq(q, 1, i - 1) \o SubSeq(q, i + 1, Len(q))

\* the reply stamped with the time the page was loaded
aiMessageAtLoad(res, t) == Message(NumStr(t + 1), "model", res.text, res.imageUrl, Undefined, 0)

\* aiMessage of handleSendMessage
aiMessage(res, t) == Message(NumStr(t + 1), "model", res.text, res.imageUrl, Undefined, t)

\* the reply message of handleSend
replyMessage(res, t) == Message(NumStr(t), "model", res.text, res.imageUrl, Undefined, t)

\* the catch block leaving isLoading as it is
handleSendMessageSettlesStillLoading ==
  /\ IsService(rev)
  /\ \E i \in 1..Len(calls) :
       \E o \in UIOutcomes :
         LET res == IF calls[i].sent THEN sendMessageToGemini(rev, o)
                    ELSE clientFailure(rev)
         IN /\ calls' = Remove(calls, i)
            /\ isLoading' = IF res.ok THEN FALSE ELSE isLoading
            /\ last' = IF calls[i].sent THEN OutcomeKind(o) ELSE "client"
            /\ IF res.ok
               THEN /\ messages' = spread(messages, aiMessage(res, now))
                    /\ error' = error
               ELSE /\ messages' = messages
                    /\ error' = res.message
  /\ UNCHANGED <<rev, apiKey, selectedModel, input, selectedImage, rendered, now,
                 dvars>>

\* the success branch also writing error: null
handleSendMessageSettlesClearsError ==
  /\ IsService(rev)
  /\ \E i \in 1..Len(calls) :
       \E o \in UIOutcomes :
         LET res == IF calls[i].sent THEN sendMessageToGemini(rev, o)
                    ELSE clientFailure(rev)
         IN /\ calls' = Remove(calls, i)
            /\ isLoading' = FALSE
            /\ last' = IF calls[i].sent THEN OutcomeKind(o) ELSE "client"
            /\ IF res.ok
               THEN /\ messages' = spread(messages, aiMessage(res, now))
                    /\ error' = Null
               ELSE /\ messages' = messages
                    /\ error' = res.message
  /\ UNCHANGED <<rev, apiKey, selectedModel, input, selectedImage, rendered, now,
                 dvars>>

\* the rest of handleSendMessage, after the awaited dispatch i has settled
handleSendMessageSettles ==
  /\ IsService(rev)
  /\ \E i \in 1..Len(calls) :
       \E o \in UIOutcomes :
         LET res == IF calls[i].sent THEN sendMessageToGemini(rev, o)
                    ELSE clientFailure(rev)
         IN /\ calls' = Remove(calls, i)
            /\ isLoading' = FALSE
            /\ last' = IF calls[i].sent THEN OutcomeKind(o) ELSE "client"
            /\ IF res.ok
               THEN /\ messages' = spread(messages, aiMessage(res, now))
                    /\ error' = error
               ELSE /\ messages' = messages
                    /\ error' = res.message
  /\ UNCHANGED <<rev, apiKey, selectedModel, input, selectedImage, rendered, now,
                 dvars>>

\* the rest of handleSend, after the awaited call i has settled
handleSendSettles ==
  /\ ~IsService(rev)
  /\ \E i \in 1..Len(calls) :
       \E o \in UIOutcomes :
         LET res == handleSendResult(rev, o)
         IN /\ calls' = Remove(calls, i)
            /\ isLoading' = FALSE
            /\ last' = OutcomeKind(o)
            /\ messages' = spread(messages, IF res.ok THEN replyMessage(res, now)
                                                       ELSE errorMessage(rev, now))
  /\ UNCHANGED <<rev, apiKey, error, selectedModel, input, selectedImage, rendered,
                 now, dvars>>

Next ==
  \/ Render
  \/ SetInput
  \/ handleImageUpload
  \/ RemoveImage
  \/ SelectModel
  \/ SubmitIgnored
  \/ handleSendMessage
  \/ handleSend
  \/ handleSendMessageSettles
  \/ handleSendSettles

\* the session within one reading of the clock
Spec == Init /\ [][Next]_vars

\* the session of typed turns in which every provider call resolves or rejects
\* in the end and React renders every update it was handed
LiveNext ==
  \/ Render
  \/ SetInput
  \/ SubmitIgnored
  \/ handleSendMessage
  \/ handleSend
  \/ handleSendMessageSettles
  \/ handleSendSettles

SpecLive ==
  /\ Init /\ [][LiveNext]_vars
  /\ WF_vars(Render)
  /\ WF_vars(handleSendMessageSettles)
  /\ WF_vars(handleSendSettles)

\* a millisecond passes: Date.now() and new Date() never go back
Tick ==
  /\ now < MaxNow
  /\ now' = now + 1
  /\ UNCHANGED <<rev, apiKey, messages, isLoading, error, selectedModel, input,
                 selectedImage, rendered, calls, last, dvars>>

ClockNext ==
  \/ Tick
  \/ Render
  \/ SetInput
  \/ handleSendMessage
  \/ handleSend
  \/ handleSendMessageSettles
  \/ handleSendSettles

\* the session of typed turns while the clock advances
SpecClock == Init /\ [][ClockNext]_vars

----------------------------------------------------------------------------
(* Properties of the request and of the result of one dispatch               *)

Min(a, b) == IF a < b THEN a ELSE b

RequestBuilt == Len(dreq) > 0
CurrentTurn == dreq[Len(dreq)]
TextIdx(ps) == {i \in 1..Len(ps) : "text" \in DOMAIN ps[i]}
InlineIdx(ps) == {i \in 1..Len(ps) : "inlineData" \in DOMAIN ps[i]}

\* the entry the provider is to get for a stored message
Entry(msg) ==
  [role |-> IF msg.role = "user" THEN "user" ELSE "model", parts |-> <<[text |-> msg.text]>>]

\* the request holds the last k messages of the history, in order, then one more entry
LastThenTurn(k) ==
  LET h == dargs.history IN
  /\ Len(dreq) = k + 1
  /\ \A j \in 1..k : dreq[j] = Entry(h[Len(h) - k + j])

\* C3: for a non-eco variant sendMessageToGemini puts before the current turn
\* exactly the last min(N, L) messages of a history of length L, in their
\* order, N being 12 in geminiService.ts and 15 in part_003
C3_ContextIsLastMin ==
  (RequestBuilt /\ IsService(rev) /\ dargs.modelId # "eco") =>
    LastThenTurn(Min(IF rev = "geminiService.ts" THEN WINDOW_geminiService
                     ELSE WINDOW_part_003, Len(dargs.history)))

C3_Witness ==
  /\ RequestBuilt /\ rev = "geminiService.ts" /\ dargs.modelId = "pro"
  /\ Len(dargs.history) > WINDOW_part_003
  /\ Len(dreq) = WINDOW_geminiService + 1
  /\ dreq[1] = Entry(dargs.history[Len(dargs.history) - WINDOW_geminiService + 1])

\* C4 as claimed: with 20 prior messages and variant standard every dispatcher
\* sends the last 15 messages and the new turn, 16 entries
C4_Original ==
  (RequestBuilt /\ Len(dargs.history) = 20 /\ dargs.modelId = "standard") =>
    LastThenTurn(15)

\* C4 as amended: with 20 prior messages and variant standard, part_003 and
\* index.tsx send the last 15 messages and the new turn (16 entries);
\* geminiService.ts and part_002 send the last 12 and the new turn (13 entries)
C4_Amended ==
  (RequestBuilt /\ Len(dargs.history) = 20 /\ dargs.modelId = "standard") =>
    LastThenTurn(IF rev \in {"part_003", "index.tsx"} THEN 15 ELSE 12)

C4_Witness ==
  /\ RequestBuilt /\ Len(dargs.history) = 20 /\ dargs.modelId = "standard"
  /\ rev = "index.tsx"
  /\ Len(dreq) = 16
  /\ dreq[1] = Entry(dargs.history[6])

\* C5: for eco the request holds no context, whatever the history: its contents
\* are one entry, the current user turn
C5_EcoSendsOnlyTheTurn ==
  (RequestBuilt /\ dargs.modelId = "eco") =>
    /\ Len(dreq) = 1
    /\ dreq[1].role = "user"
    /\ \E i \in TextIdx(dreq[1].parts) :
         dreq[1].parts[i].text \in {dargs.newMessage, ArtLabel(rev) \o dargs.newMessage,
                                    <<"Requesting processing.">>}

C5_Witness ==
  /\ RequestBuilt /\ dargs.modelId = "eco" /\ Len(dargs.history) = MaxHist
  /\ Len(dreq) = 1

\* C6 as claimed: for eco, empty text and an attached image, the text part of
\* the current turn is never the empty string
C6_Original ==
  (RequestBuilt /\ dargs.modelId = "eco" /\ dargs.newMessage = EmptyStr
     /\ Truthy(dargs.imageInput)) =>
    \A i \in TextIdx(CurrentTurn.parts) : CurrentTurn.parts[i].text # EmptyStr

\* C7: with an attached image the current turn holds exactly one inline-data
\* part and exactly one text part, the inline-data part first
C7_InlineBeforeText ==
  (RequestBuilt /\ Truthy(dargs.imageInput)) =>
    LET ps == CurrentTurn.parts IN
    /\ Cardinality(InlineIdx(ps)) = 1
    /\ Cardinality(TextIdx(ps)) = 1
    /\ \A i \in InlineIdx(ps) : \A j \in TextIdx(ps) : i < j

C7_Witness ==
  /\ RequestBuilt /\ Truthy(dargs.imageInput) /\ dargs.newMessage = EmptyStr
  /\ dargs.modelId = "standard"
  /\ InlineIdx(CurrentTurn.parts) = {1}
  /\ TextIdx(CurrentTurn.parts) = {2}

\* the first candidate has an inline image part and no text part
ImageOnly(o) ==
  /\ ~HasThrown(o)
  /\ hasParts(o)
  /\ LET ps == o.candidates[1].content.parts IN
     /\ TextIdx(ps) = {}
     /\ \E i \in InlineIdx(ps) : StartsWithImage(ps[i].inlineData.mimeType)

\* C8: when the first candidate has an inline image part and no text part,
\* sendMessageToGemini returns an empty text and an image URL, and does not fail
C8_ImageOnlyResult ==
  (dpc = "done" /\ IsService(rev) /\ ImageOnly(dout)) =>
    /\ dres.ok
    /\ dres.text = EmptyStr
    /\ Truthy(dres.imageUrl)
    /\ dres.imageUrl[1] = "data"

C8_Witness ==
  /\ dpc = "done" /\ IsService(rev) /\ ImageOnly(dout)
  /\ Len(dout.candidates[1].content.parts) = 1
  /\ dres.ok
  /\ dres.text = EmptyStr
  /\ dres.imageUrl = DataUrl(Png, Payload1)

\* the inline-data part of the current turn
SentInline == CurrentTurn.parts[1].inlineData

\* C10 as claimed: for every MIME type m and payload d the dispatcher splits
\* data:m;base64,d into m and d, and the inline-data part {m, d} of a response
\* is encoded as data:m;base64,d again
C10_Original ==
  /\ (RequestBuilt /\ IsService(rev)) =>
       SentInline = [mimeType |-> dargs.mime, data |-> dargs.payload]
  /\ (dpc = "done" /\ IsService(rev)) =>
       dres.ok /\ dres.imageUrl = DataUrl(dargs.mime, dargs.payload)

\* a MIME type that is not empty and holds neither ";" nor ","
BareType(m) == m # EmptyStr /\ \A i \in 1..Len(m) : m[i] \notin {";", ","}

\* C10 as amended: for every base64 payload d, the dispatcher splits
\* data:m;base64,d into m and d for every MIME type m that is not empty and
\* holds no ";" and no ","; and sendMessageToGemini encodes the inline-data
\* part {m, d} of a response as data:m;base64,d again for every m that starts
\* with image/ (handleSend for every m)
C10_Amended ==
  /\ (RequestBuilt /\ BareType(dargs.mime)) =>
       SentInline = [mimeType |-> dargs.mime, data |-> dargs.payload]
  /\ (dpc = "done" /\ (StartsWithImage(dargs.mime) \/ ~IsService(rev))) =>
       dres.ok /\ dres.imageUrl = DataUrl(dargs.mime, dargs.payload)

C10_Witness ==
  /\ dpc = "done" /\ rev = "geminiService.ts"
  /\ dargs.mime = Png /\ dargs.payload = Payload1 \o Payload2
  /\ SentInline = [mimeType |-> Png, data |-> Payload1 \o Payload2]
  /\ dres.ok
  /\ dres.imageUrl = dargs.imageInput

----------------------------------------------------------------------------
(* Properties of the session *)

InFlight == {i \in 1..Len(calls) : calls[i].sent}

\* C1 as claimed: at no time are two provider calls in flight
C1_OneCallInFlight == Cardinality(InFlight) <= 1

\* the awaited dispatch i has settled in this step
Settled(i) == i \in 1..Len(calls) /\ calls' = Remove(calls, i)

----------------------------------------------------------------------------
(* Properties of the store *)

\* C11 as claimed, in the case it names for App.tsx: a user message never
\* carries the id of a reply, also when it is submitted one millisecond after
\* the reply was created
C11_UserIdIsNoReplyId ==
  IsService(rev) =>
    \A i, j \in 1..Len(messages) :
      (messages[i].role = "user" /\ messages[j].role = "model") =>
        messages[i].id # messages[j].id

\* C12: the store is append-only: in every step the stored sequence is a prefix
\* of the new one (on submit, on success, on failure, on model selection)
C12_AppendOnly ==
  [][/\ Len(messages') >= Len(messages)
     /\ SubSeq(messages', 1, Len(messages)) = messages]_vars

C12_Witness ==
  /\ Len(messages) = 4
  /\ messages[1] = Greeting(rev)
  /\ messages[2].role = "user" /\ messages[3].role = "model"
  /\ messages[4].role = "user"
  /\ last = "threw"
  /\ selectedModel = "eco"

\* C13: the timestamps of the stored messages never decrease in store order
C13_TimestampsMonotone ==
  \A i, j \in 1..Len(messages) :
    i < j => messages[i].timestamp <= messages[j].timestamp

\* a reply appended after a user message that was created later than the one
\* before it
C13_Witness ==
  /\ IsService(rev)
  /\ \E k \in 1..Len(messages) :
       /\ k + 2 <= Len(messages)
       /\ messages[k].role = "user" /\ messages[k + 1].role = "user"
       /\ messages[k + 2].role = "model"
       /\ messages[k].timestamp < messages[k + 1].timestamp
       /\ messages[k + 1].timestamp < messages[k + 2].timestamp

----------------------------------------------------------------------------
(* Properties of the calls of the session *)

\* this step accepts a submit: it appends the user message of a turn
Accepts ==
  /\ Len(messages') > Len(messages)
  /\ messages'[Len(messages) + 1].role = "user"

\* this step is the rest of a handler after its provider call has settled
SettlesCall ==
  /\ ~Accepts
  /\ last' \in {"threw", "empty", "replied"}
  /\ <<messages, isLoading, error, last, calls>>' # <<messages, isLoading, error, last, calls>>

\* C14 as claimed: every accepted submit starts exactly one provider call, and
\* no other step starts one
C14_Original ==
  [][/\ Accepts => Cardinality(InFlight') = Cardinality(InFlight) + 1
     /\ ~Accepts => Cardinality(InFlight') <= Cardinality(InFlight)]_vars

\* C14 as amended: an accepted submit starts exactly one provider call when
\* new GoogleGenAI(...) returns a client and none when it raises; no other
\* step starts a call, and a call that has settled, with a failure or an empty
\* response too, is not issued again
C14_Amended ==
  [][/\ Accepts =>
          Cardinality(InFlight') = Cardinality(InFlight) + (IF apiKey THEN 1 ELSE 0)
     /\ ~Accepts => Cardinality(InFlight') <= Cardinality(InFlight)
     /\ SettlesCall => Cardinality(InFlight') = Cardinality(InFlight) - 1]_vars

C14_Witness ==
  /\ apiKey /\ IsService(rev)
  /\ last \in {"threw", "empty"}
  /\ InFlight = {}
  /\ Len(messages) = 2
  /\ messages[2].role = "user"
  /\ error = ServiceError(rev)

\* the last dispatch to settle has failed
DispatchFailed == last = "threw" \/ (last = "empty" /\ IsService(rev))

\* the submit handler on the page is handed no blank turn
HasTurn(c) == Truthy(Trim(c.input)) \/ Truthy(c.selectedImage)

\* C15 as claimed: after a dispatch has failed isLoading is false and a submit
\* with non-blank text or an attached image is accepted
C15_Original ==
  DispatchFailed => (~isLoading /\ (HasTurn(rendered) => ~Ignored(rendered)))

\* C16: every accepted submit that awaits a dispatch leaves the loading flag
\* set, and if every provider call resolves or rejects in the end the flag
\* returns to false and the page is rendered with submission enabled again
C16_LoadingEnds ==
  /\ [][(Accepts /\ last' = "accepted") => isLoading']_vars
  /\ isLoading ~> (~isLoading /\ ~rendered.isLoading)

C16_Witness ==
  /\ DispatchFailed
  /\ Len(messages) >= 2
  /\ calls = <<>>
  /\ ~isLoading
  /\ Fresh

----------------------------------------------------------------------------
(* Further properties of one dispatch *)

\* C17 as claimed: for eco the text of the current turn sent by
\* sendMessageToGemini is the new text with the fixed label before it, with and
\* without an attached image (here for every new text that is not empty)
C17_Original ==
  (RequestBuilt /\ IsService(rev) /\ dargs.modelId = "eco"
     /\ dargs.newMessage # EmptyStr) =>
    \A i \in TextIdx(CurrentTurn.parts) :
      CurrentTurn.parts[i].text = ArtLabel(rev) \o dargs.newMessage

\* the inline-data parts of the first candidate that hold an image
ImageIdx(o) ==
  {i \in 1..Len(resParts(o)) :
     /\ "inlineData" \in DOMAIN resParts(o)[i]
     /\ StartsWithImage(resParts(o)[i].inlineData.mimeType)}

\* the least element of a non-empty set of numbers
Least(S) == CHOOSE x \in S : \A y \in S : x <= y

\* C18 as claimed: with several image parts in the first candidate the image
\* URL of the result is built from the first of them
C18_Original ==
  (dpc = "done" /\ ~HasThrown(dout) /\ Cardinality(ImageIdx(dout)) >= 2) =>
    /\ dres.ok
    /\ dres.imageUrl = encode(resParts(dout)[Least(ImageIdx(dout))].inlineData)

\* the texts of the text parts of ps, in order, one after the other
RECURSIVE TextOf(_)
TextOf(ps) ==
  IF ps = <<>> THEN EmptyStr
  ELSE (IF "text" \in DOMAIN Head(ps) THEN Head(ps).text ELSE EmptyStr) \o TextOf(Tail(ps))

\* C19: the text of the result of sendMessageToGemini is the concatenation, in
\* part order, of the texts of the text parts of the first candidate; other
\* candidates and inline-data parts add nothing to it
C19_TextIsConcatenation ==
  (dpc = "done" /\ IsService(rev) /\ ~HasThrown(dout) /\ dres.ok) =>
    dres.text = (IF hasParts(dout) THEN TextOf(dout.candidates[1].content.parts)
                 ELSE EmptyStr)

C19_Witness ==
  /\ dpc = "done" /\ IsService(rev) /\ dres.ok
  /\ Len(dout.candidates) = 2
  /\ dout.candidates[1].content.parts = <<[text |-> <<"b">>]>>
  /\ dres.text = <<"b">>

\* C20 as claimed: for a non-eco variant, empty new text and an attached image,
\* the text part of the current turn is not the empty string
C20_Original ==
  (RequestBuilt /\ dargs.modelId # "eco" /\ dargs.newMessage = EmptyStr
     /\ Truthy(dargs.imageInput)) =>
    \A i \in TextIdx(CurrentTurn.parts) : CurrentTurn.parts[i].text # EmptyStr

----------------------------------------------------------------------------
(* Properties of the error state *)

\* C21 as claimed: every failure of a dispatch of App.tsx, the failure to build
\* the client included, leaves the same single error string in the error state
C21_Original ==
  (IsService(rev) /\ last \in {"threw", "empty", "client"}) =>
    error = ServiceError(rev)

----------------------------------------------------------------------------
(* Properties of the arrays of one dispatch *)

\* C22: the dispatcher leaves the history array it was handed as it was, in
\* length and in elements, once the request is sent and once the call has
\* ended in success or in failure; the contents of the request are an array of
\* their own
C22_HistoryUntouched ==
  dpc \in {"sent", "done"} =>
    /\ heap.history = dargs.history
    /\ RequestBuilt => heap.contents = dreq

C22_Witness ==
  /\ dpc = "done" /\ IsService(rev)
  /\ ~dres.ok
  /\ dargs.modelId = "pro"
  /\ Len(dargs.history) = MaxHist
  /\ heap.history = History(MaxHist, 1)
  /\ Len(heap.contents) = Window(rev) + 1

----------------------------------------------------------------------------
(* Properties of the context entries *)

\* the images stored with the messages of a history
HistoryImages(history) ==
  {history[i].imageUrl : i \in 1..Len(history)} \cup
  {history[i].inputImageUrl : i \in 1..Len(history)}

\* a part of a request shows the image url: as its inline data or as its text
Shows(part, url) ==
  \/ "inlineData" \in DOMAIN part
     /\ DataUrl(part.inlineData.mimeType, ToStr(part.inlineData.data)) = url
  \/ "text" \in DOMAIN part /\ part.text = url

\* C23: every entry of the request before the current turn stands for one
\* message of the history, has one part only, a text part with the message's
\* text, and the role user for a user message and model for any other; no
\* part of the request shows an image stored with a message of the history
C23_ContextIsTextOnly ==
  RequestBuilt =>
    LET n == Len(dreq) - 1
        h == dargs.history
        from == Len(h) - n
    IN /\ n <= Len(h)
       /\ \A k \in 1..n :
            /\ Len(dreq[k].parts) = 1
            /\ DOMAIN dreq[k].parts[1] = {"text"}
            /\ dreq[k].parts[1].text = h[from + k].text
            /\ dreq[k].role = (IF h[from + k].role = "user" THEN "user" ELSE "model")
       /\ \A k \in 1..Len(dreq) : \A j \in 1..Len(dreq[k].parts) :
            \A url \in HistoryImages(h) \ {Undefined} :
              ~Shows(dreq[k].parts[j], url)

C23_Witness ==
  /\ dpc = "sent"
  /\ dargs.modelId = "standard"
  /\ Len(dreq) = Window(rev) + 1
  /\ \E k \in 1..Window(rev) : \E i \in 1..Len(dargs.history) :
       /\ dreq[k].parts = <<[text |-> dargs.history[i].text]>>
       /\ dreq[k].role = "model"
       /\ dargs.history[i].imageUrl = HistUrl(i)
  /\ \E k \in 1..Window(rev) : \E i \in 1..Len(dargs.history) :
       /\ dreq[k].parts = <<[text |-> dargs.history[i].text]>>
       /\ dreq[k].role = "user"
       /\ dargs.history[i].inputImageUrl = HistUrl(i)
  /\ Truthy(dargs.imageInput)

----------------------------------------------------------------------------
(* Properties of the loading flag of App.tsx *)

\* C24 as claimed: in App.tsx, with the client built, isLoading is true in
\* exactly the states in which a provider call is pending
C24_Original ==
  (IsService(rev) /\ apiKey) => (isLoading <=> InFlight # {})

----------------------------------------------------------------------------
(* Properties of the submit events that are not accepted *)

\* the handler sees no text but white space and no attached image
NoTurn(c) ==
  /\ \A i \in 1..Len(c.input) : c.input[i] = " "
  /\ c.selectedImage = Null

\* C25: while the handler sees no turn (text empty or white space only, no
\* image) or sees isLoading true, no step accepts a submit or issues a provider
\* call, and the submit event changes none of the store, the loading flag, the
\* error, the input, the attached image and the selected model
C25_IgnoredSubmitIsNoOp ==
  [][(NoTurn(rendered) \/ rendered.isLoading) =>
       /\ ~Accepts
       /\ Len(calls') <= Len(calls)
       /\ (last # "ignored" /\ last' = "ignored") =>
            UNCHANGED <<messages, isLoading, error, input, selectedImage,
                        selectedModel, calls>>]_vars

C25_Witness ==
  /\ last = "ignored"
  /\ rendered.input = <<" ">>
  /\ NoTurn(rendered)
  /\ ~rendered.isLoading
  /\ IsService(rev)
  /\ error = ServiceError(rev)
  /\ Len(messages) > 1

----------------------------------------------------------------------------
(* Properties of the values a dispatch works on *)

\* s ends with t
EndsWith(s, t) ==
  /\ Len(s) >= Len(t)
  /\ SubSeq(s, Len(s) - Len(t) + 1, Len(s)) = t

\* the request req carries the variant, the text, the image and the history
\* of the closure c
Carries(req, c) ==
  LET turn == req[Len(req)]
      k == Len(req) - 1
      h == c.messages
  IN /\ (k = 0) <=> (c.selectedModel = "eco")
     /\ k <= Len(h)
     /\ \A j \in 1..k : req[j] = Entry(h[Len(h) - k + j])
     /\ (InlineIdx(turn.parts) # {}) <=> Truthy(c.selectedImage)
     /\ \A j \in InlineIdx(turn.parts) :
          DataUrl(turn.parts[j].inlineData.mimeType, turn.parts[j].inlineData.data)
            = c.selectedImage
     /\ Cardinality(TextIdx(turn.parts)) = 1
     /\ \A j \in TextIdx(turn.parts) : EndsWith(turn.parts[j].text, c.input)

\* the replies that the settled call of a revision can leave in the store at time t
Replies(r, t) ==
  {IF IsService(r) THEN aiMessage(sendMessageToGemini(r, o), t)
                   ELSE replyMessage(handleSendResult(r, o), t) :
     o \in {u \in UIOutcomes : dispatchResult(r, u).ok}}
  \cup (IF IsService(r) THEN {} ELSE {errorMessage(r, t)})

\* C26: the request of a dispatch is built at its submit from the variant, the
\* text, the image and the history the handler holds then; no later step,
\* whatever is typed, attached or selected while the call is pending, changes
\* a request that was sent, and the reply appended for a call is made of what
\* the call returned alone
C26_DispatchUsesSubmitValues ==
  [][/\ Accepts =>
          /\ SubSeq(calls', 1, Len(calls)) = calls
          /\ Len(calls') <= Len(calls) + 1
          /\ \A i \in (Len(calls) + 1)..Len(calls') :
               calls'[i].sent => Carries(calls'[i].contents, rendered)
     /\ ~Accepts =>
          \/ calls' = calls
          \/ \E i \in 1..Len(calls) : calls' = Remove(calls, i)
     /\ (~Accepts /\ Len(messages') > Len(messages)) =>
          /\ messages' = Append(messages, messages'[Len(messages')])
          /\ messages'[Len(messages')] \in Replies(rev, now)]_vars

C26_Witness ==
  /\ last = "replied"
  /\ Len(messages) = 3
  /\ messages[2].text = <<"hi">> /\ messages[2].inputImageUrl = Undefined
  /\ messages[3].role = "model"
  /\ selectedModel = "eco"
  /\ selectedImage = PngUrl
  /\ rendered.isLoading
  /\ rendered.selectedModel = "eco"
  /\ rendered.selectedImage = PngUrl

----------------------------------------------------------------------------
(* Properties of the history handed to the dispatcher *)

\* C27 as claimed: the last entry of every pending request is a user turn, and
\* the entries before it are the last messages of the store as it was just
\* before the user message of that turn was appended
C27_Original ==
  \A i \in InFlight :
    LET req == calls[i].contents
        k == Len(req) - 1
        before == SubSeq(messages, 1, calls[i].turn - 1)
    IN /\ req[Len(req)].role = "user"
       /\ k \in {0, Min(Window(rev), Len(before))}
       /\ \A j \in 1..k : req[j] = Entry(before[Len(before) - k + j])

----------------------------------------------------------------------------
(* Properties of the order of the store of App.tsx *)

\* C28 as claimed: in the store of App.tsx every model message after the
\* greeting comes right after a user message
C28_Original ==
  IsService(rev) =>
    \A k \in 2..Len(messages) :
      messages[k].role = "model" => messages[k - 1].role = "user"

----------------------------------------------------------------------------
(* Properties of the error state of App.tsx *)

\* C29: in App.tsx an accepted submit sets error to null, error is null in
\* every state where isLoading is true, and the step that appends the reply of
\* a successful dispatch leaves error as it was
C29_ErrorAndLoading ==
  /\ [](IsService(rev) => (isLoading => error = Null))
  /\ [][IsService(rev) =>
          /\ Accepts => error' = Null
          /\ (SettlesCall /\ last' = "replied") => error' = error]_vars

C29_Witness ==
  /\ IsService(rev)
  /\ last = "replied"
  /\ messages[Len(messages)].role = "model"
  /\ error = ServiceError(rev)
  /\ ~isLoading

====
